---- MODULE Spec2Model ----
(***************************************************************************)
(* State-machine model of the SaucerSwap HBAR-to-token plugin:             *)
(*   tools/swap-hbar-for-token.ts (src/unnamed/part_001)  execute          *)
(*   tools/utils.ts                                        helpers, guard  *)
(*   tools/constants.ts                                    network tables  *)
(* One behaviour is one call of an exported function (execute,             *)
(* ensureTokenAssociation or resolveSwapPath).  Every await is a point     *)
(* where the task is suspended; the answer of the external collaborator    *)
(* (mirror node, SDK, transaction handler) is drawn from a finite set when *)
(* the task resumes.                                                       *)
(***************************************************************************)
EXTENDS Integers, Sequences, FiniteSets, TLC

VARIABLES
    entry,       \* which exported function the host called
    ledger,      \* client.ledgerId ("NONE" = undefined)
    mode,        \* context.mode
    params,      \* hbarAmount, tokenId, recipientAccountId
    ctxAccount,  \* default account AccountResolver falls back to
    pc,          \* where the asynchronous task is suspended
    calls,       \* outbound operations issued so far, in order
    handed,      \* transactions handed to handleTransaction, in order
    tokenResp,   \* the Mirror Node's answer to the token-info request
    tokenInfo,   \* completion of fetchTokenInfoFromMirrorNode
    recipient,   \* recipientAccountId resolved by AccountResolver
    hasTok,      \* promise of mirrorNodeAccountHasToken
    maxAuto,     \* promise of mirrorNodeAccountMaxAutoAssociations
    promiseAll,  \* the Promise.all joining the two lookups
    assocResult, \* what handleTransaction answered for the association
    guard,       \* completion of ensureTokenAssociation
    nowRead,     \* value of Date.now() read by execute (ms), -1 = not read
    swapResult,  \* what handleTransaction answered for the swap
    pathOut,     \* completion of a direct resolveSwapPath call
    failed,      \* an exception has been raised in this call
    result       \* value returned by execute

vars == << tokenResp, entry, ledger, mode, params, ctxAccount, pc, calls, handed,
           tokenInfo, recipient, hasTok, maxAuto, promiseAll, assocResult,
           guard, nowRead, swapResult, pathOut, failed, result >>

-----------------------------------------------------------------------------
(* Bounds of the model *)

MaxHbar == 2

-----------------------------------------------------------------------------
(* constants.ts *)

LedgerIdToRouterContractID ==
    ("TESTNET" :> "0.0.19264") @@ ("MAINNET" :> "0.0.3045981")

LedgerIdToWHbarID ==
    ("TESTNET" :> "0.0.15058") @@ ("MAINNET" :> "0.0.1456986")

DEFAULT_SWAP_GAS == 400000

DEFAULT_DEADLINE_SECONDS == 300

LedgerIdToBaseUrl ==
    ("MAINNET" :> "https://mainnet-public.mirrornode.hedera.com/api/v1") @@
    ("TESTNET" :> "https://testnet.mirrornode.hedera.com/api/v1")

\* Map.prototype.get: the value, or undefined (here the empty string, which
\* is falsy like undefined in the `if (!x)` tests that follow every lookup).
MapGet(map, key) == IF key \in DOMAIN map THEN map[key] ELSE ""

-----------------------------------------------------------------------------
(* JavaScript values carried by JSON bodies, and thrown values *)

Undefined == [tag |-> "undefined", n |-> 0, s |-> ""]
Null      == [tag |-> "null", n |-> 0, s |-> ""]
NaN       == [tag |-> "nan", n |-> 0, s |-> ""]
Num(k)    == [tag |-> "num", n |-> k, s |-> ""]
Str(t)    == [tag |-> "str", n |-> 0, s |-> t]

\* ToBoolean
Truthy(v) ==
    \/ v.tag = "num" /\ v.n # 0
    \/ v.tag = "str" /\ v.s # ""

\* Decimal literals Number() is applied to in this model.
DecimalLiterals == ("0" :> 0) @@ ("6" :> 6)

\* Number(v)
NumberOf(v) ==
    CASE v.tag = "num" -> v
      [] v.tag = "str" -> IF v.s = "" THEN Num(0)
                          ELSE IF v.s \in DOMAIN DecimalLiterals
                          THEN Num(DecimalLiterals[v.s])
                          ELSE NaN
      [] v.tag = "null" -> Num(0)
      [] OTHER -> NaN

\* typeof v === "number"
IsNumberType(v) == v.tag \in {"num", "nan"}

\* A thrown value: an Error with a message, or something that is no Error.
Err(msg) == [isError |-> TRUE, message |-> msg]
NonError == [isError |-> FALSE, message |-> "rejected with a non-Error value"]
NoErr    == [isError |-> TRUE, message |-> ""]

\* String.prototype.trim on the response texts of this model.
Trim(t) == IF t = "  " THEN "" ELSE t

-----------------------------------------------------------------------------
(* Answers of the external collaborators *)

\* fetch(): rejects, or resolves to a response with a status, an error text
\* and a JSON body (bodyKind "invalid": response.json() throws).
Rejected == [kind |-> "rejected", status |-> 0, text |-> "", bodyKind |-> "invalid"]
Http(st, txt, bk) == [kind |-> "http", status |-> st, text |-> txt, bodyKind |-> bk]

ResponseOk(resp) == resp.status >= 200 /\ resp.status <= 299

FailureResponses ==
    { Rejected, Http(404, "Not found", "object"), Http(500, "  ", "object"),
      Http(200, "", "invalid") }

TypeShapes ==
    { Undefined, Null, Str(""), Str("FUNGIBLE_COMMON"), Str("NON_FUNGIBLE_UNIQUE") }

DecimalShapes ==
    { Undefined, Null, Num(0), Num(6), Str("6"), Str("0"), Str("abc"), Str("") }

NoTokenBody == [type |-> Undefined, decimals |-> Undefined]

NoTokenResponse ==
    [resp |-> [kind |-> "none", status |-> 0, text |-> "", bodyKind |-> "invalid"],
     body |-> NoTokenBody]

TokenResponses ==
    { [resp |-> r, body |-> NoTokenBody] : r \in FailureResponses } \cup
    { [resp |-> Http(200, "", "object"), body |-> [type |-> t, decimals |-> d]] :
        t \in TypeShapes, d \in DecimalShapes }

\* A JSON field that is an array of { token_id } entries, or no array.
ArrayOf(items) == [isArray |-> TRUE, items |-> items]
NotArray       == [isArray |-> FALSE, items |-> << >>]

AccountTokensBodies(tokenId) ==
    { [tokens |-> ArrayOf(<< tokenId >>),  balances |-> NotArray],
      [tokens |-> ArrayOf(<< "0.0.9999" >>), balances |-> NotArray],
      [tokens |-> ArrayOf(<< "null" >>),   balances |-> NotArray],
      [tokens |-> ArrayOf(<< >>),          balances |-> ArrayOf(<< tokenId >>)],
      [tokens |-> NotArray,                balances |-> ArrayOf(<< tokenId >>)],
      [tokens |-> NotArray,                balances |-> NotArray] }

AccountTokensResponses(tokenId) ==
    { [resp |-> r, body |-> [tokens |-> NotArray, balances |-> NotArray]] :
        r \in FailureResponses \cup { Http(200, "", "null") } } \cup
    { [resp |-> Http(200, "", "object"), body |-> b] : b \in AccountTokensBodies(tokenId) }

MaxAutoShapes == { Undefined, Null, Num(-1), Num(0), Num(5), Str("-1") }

AccountResponses ==
    { [resp |-> r, body |-> Undefined] :
        r \in FailureResponses \cup { Http(200, "", "null") } } \cup
    { [resp |-> Http(200, "", "object"), body |-> v] : v \in MaxAutoShapes }

\* handleTransaction: an executed result { raw: { status } }, unsigned
\* bytes { bytes }, or a raised exception.
Executed(st) == [shape |-> "raw", status |-> st, threw |-> FALSE, err |-> NoErr]
Bytes        == [shape |-> "bytes", status |-> "", threw |-> FALSE, err |-> NoErr]
HandlerThrew(e) == [shape |-> "none", status |-> "", threw |-> TRUE, err |-> e]
NoHandlerResult == [shape |-> "none", status |-> "", threw |-> FALSE, err |-> NoErr]

HandlerAnswers ==
    { Executed("SUCCESS"), Executed("INSUFFICIENT_PAYER_BALANCE"), Bytes,
      HandlerThrew(Err("transaction failed precheck")), HandlerThrew(NonError) }

\* AccountId.populateAccountEvmAddress(client): the populated address, or a
\* raised exception.
EvmAnswers ==
    { [ok |-> TRUE,  address |-> "0xabc1", err |-> NoErr],
      [ok |-> FALSE, address |-> "", err |-> Err("mirror node query failed")] }

\* Date.now() in milliseconds.
NowValues == { 0, 999, 1000, 61999 }

-----------------------------------------------------------------------------
(* Completions of a call: a returned value or a thrown value *)

Return(v)   == [ok |-> TRUE, val |-> v, err |-> NoErr]
Throw(e, d) == [ok |-> FALSE, val |-> d, err |-> e]

-----------------------------------------------------------------------------
(* utils.ts: the Mirror Lookup Client *)

\* `(await response.text()).trim().slice(0, 200)` and the details suffix.
ErrorDetails(resp) ==
    LET errorBody == Trim(resp.text)
    IN  IF errorBody # "" THEN " " \o errorBody ELSE ""

NoTokenInfo == [type |-> Undefined, decimals |-> NaN]

fetchTokenInfoFromMirrorNode(r) ==
    IF r.resp.kind = "rejected" THEN Throw(Err("fetch failed"), NoTokenInfo)
    ELSE IF ~ResponseOk(r.resp)
    THEN Throw(Err("Mirror Node token lookup failed (" \o ToString(r.resp.status)
                   \o ")." \o ErrorDetails(r.resp)), NoTokenInfo)
    ELSE IF r.resp.bodyKind = "invalid"
    THEN Throw(Err("Unexpected token in JSON"), NoTokenInfo)
    ELSE IF r.resp.bodyKind = "null"
    THEN Throw(Err("Cannot read properties of null"), NoTokenInfo)
    ELSE IF ~Truthy(r.body.decimals)
    THEN Throw(Err("Mirror Node token info missing numeric decimals."), NoTokenInfo)
    ELSE Return([type |-> r.body.type, decimals |-> NumberOf(r.body.decimals)])

requireClientLedger(l) ==
    IF l = "NONE"
    THEN Throw(Err("Unable to determine Hedera network from client."), "NONE")
    ELSE Return(l)

\* The parsed body, or the exception of a failed request.
fetchFromMirrorNode(r) ==
    IF r.resp.kind = "rejected" THEN Throw(Err("fetch failed"), "none")
    ELSE IF ~ResponseOk(r.resp)
    THEN Throw(Err("Mirror Node request failed (" \o ToString(r.resp.status)
                   \o ")." \o ErrorDetails(r.resp)), "none")
    ELSE IF r.resp.bodyKind = "invalid"
    THEN Throw(Err("Unexpected token in JSON"), "none")
    ELSE Return(r.resp.bodyKind)

mirrorNodeAccountHasToken(r, tokenId) ==
    LET data == fetchFromMirrorNode(r)
        relationships ==
            IF r.body.tokens.isArray THEN r.body.tokens.items
            ELSE IF r.body.balances.isArray THEN r.body.balances.items
            ELSE << >>
    IN  IF ~data.ok THEN Throw(data.err, FALSE)
        ELSE IF data.val = "null"
        THEN Throw(Err("Cannot read properties of null"), FALSE)
        ELSE Return(\E i \in DOMAIN relationships : relationships[i] = tokenId)

mirrorNodeAccountMaxAutoAssociations(r) ==
    LET data == fetchFromMirrorNode(r)
        value == r.body
    IN  IF ~data.ok THEN Throw(data.err, 0)
        ELSE IF data.val = "null"
        THEN Throw(Err("Cannot read properties of null"), 0)
        ELSE Return(IF IsNumberType(value) THEN value.n ELSE 0)

-----------------------------------------------------------------------------
(* utils.ts: the Association Guard, its synchronous pieces *)

\* EnsurePrelude without the test of the base URL.
EnsurePreludeUnchecked(l) ==
    LET lg == requireClientLedger(l)
    IN  IF ~lg.ok THEN Throw(lg.err, "")
        ELSE Return(MapGet(LedgerIdToBaseUrl, l))

\* Lines 103-107: the ledger and the Mirror Node base URL.
EnsurePrelude(l) ==
    LET lg == requireClientLedger(l)
        mirrorNodeBaseUrl == MapGet(LedgerIdToBaseUrl, l)
    IN  IF ~lg.ok THEN Throw(lg.err, "")
        ELSE IF mirrorNodeBaseUrl = ""
        THEN Throw(Err("Unsupported Hedera network for Mirror Node lookup."), "")
        ELSE Return(mirrorNodeBaseUrl)

\* PromiseAllStep as Promise.race would settle: on the first completion.
PromiseRaceStep(all, mine, otherSt) ==
    IF all.st # "pending" THEN all
    ELSE IF ~mine.ok THEN [st |-> "rejected", err |-> mine.err]
    ELSE [st |-> "fulfilled", err |-> NoErr]

\* Promise.all over [hasToken, maxAuto]: rejected with the first rejection,
\* fulfilled once both are fulfilled, pending otherwise.  `all` is the state
\* of the joined promise so far, `mine` the completion that has just
\* arrived, `otherSt` the state of the other lookup.
PromiseAllStep(all, mine, otherSt) ==
    IF all.st # "pending" THEN all
    ELSE IF ~mine.ok THEN [st |-> "rejected", err |-> mine.err]
    ELSE IF otherSt = "fulfilled" THEN [st |-> "fulfilled", err |-> NoErr]
    ELSE all

\* AssociationDecision without the RETURN_BYTES test.
AssociationDecisionNoModeTest(isAssociated, maxAutoAssociations, md) ==
    IF isAssociated \/ maxAutoAssociations = -1 THEN "return" ELSE "submit"

\* AssociationDecision with `&&` in place of `||`.
AssociationDecisionBoth(isAssociated, maxAutoAssociations, md) ==
    IF isAssociated /\ maxAutoAssociations = -1 THEN "return"
    ELSE IF md = "RETURN_BYTES" THEN "throw"
    ELSE "submit"

\* Lines 114-124: what the guard does with the two lookup results.
AssociationDecision(isAssociated, maxAutoAssociations, md) ==
    LET hasUnlimitedAutoAssociations == maxAutoAssociations = -1
    IN  IF isAssociated \/ hasUnlimitedAutoAssociations THEN "return"
        ELSE IF md = "RETURN_BYTES" THEN "throw"
        ELSE "submit"

AssociationRequiredMessage ==
    "Recipient account lacks token association. Please associate the token before requesting RETURN_BYTES."

\* Lines 126-129.
AssociateTx(accountId, tokenId) ==
    [type |-> "TokenAssociateTransaction", accountId |-> accountId,
     tokenIds |-> << tokenId >>, memo |-> "Auto-associate for SaucerSwap"]

\* AssociationOutcome without the test of the status.
AssociationOutcomeAnyStatus(h) ==
    IF h.threw THEN Throw(h.err, "")
    ELSE IF h.shape = "raw" THEN Return("")
    ELSE Throw(Err("Unexpected RETURN_BYTES result while associating token."), "")

\* Lines 141-150: the guard's completion given the handler's answer.
AssociationOutcome(h) ==
    IF h.threw THEN Throw(h.err, "")
    ELSE IF h.shape = "raw"
    THEN IF h.status # "SUCCESS"
         THEN Throw(Err("Token association failed: " \o h.status), "")
         ELSE Return("")
    ELSE Throw(Err("Unexpected RETURN_BYTES result while associating token."), "")

\* TokenId.fromString / AccountId.fromString accept shard.realm.num only.
EntityIds == { "0.0.5005", "0.0.1001", "0.0.2002", "0.0.15058", "0.0.1456986" }

\* TokenId.toEvmAddress(): the long-zero address of the entity.
toEvmAddress(id) == "0x" \o id

resolveSwapPath(l, tokenId) ==
    LET whbarId == MapGet(LedgerIdToWHbarID, l)
    IN  IF whbarId = ""
        THEN Throw(Err("Unsupported Hedera network for WHBAR mapping."), << >>)
        ELSE IF tokenId \notin EntityIds
        THEN Throw(Err("failed to parse entity id: " \o tokenId), << >>)
        ELSE Return(<< toEvmAddress(whbarId), toEvmAddress(tokenId) >>)

-----------------------------------------------------------------------------
(* swap-hbar-for-token.ts: the synchronous pieces of execute *)

NoResult == [kind |-> "none", text |-> "", raw |-> [error |-> ""],
             humanMessage |-> "", handler |-> NoHandlerResult]

StringResult(t) == [NoResult EXCEPT !.kind = "string", !.text = t]

HandlerResult(h) == [NoResult EXCEPT !.kind = "handler", !.handler = h]

\* CatchResult handling Error instances only: anything else is thrown on.
CatchResultErrorsOnly(error) ==
    IF error.isError
    THEN [NoResult EXCEPT !.kind = "structured", !.raw = [error |-> error.message],
                          !.humanMessage = error.message]
    ELSE [NoResult EXCEPT !.kind = "escaped"]

\* Lines 104-115: the catch clause at the tool boundary.
CatchResult(error) ==
    LET message == IF error.isError THEN error.message
                   ELSE "Unexpected error during SaucerSwap swap."
    IN  [NoResult EXCEPT !.kind = "structured", !.raw = [error |-> message],
                         !.humanMessage = message]

\* Lines 47-56: ledger, router contract and base URL.
ExecutePrelude(l) ==
    LET lg == requireClientLedger(l)
        routerId == MapGet(LedgerIdToRouterContractID, l)
        mirrorNodeBaseUrl == MapGet(LedgerIdToBaseUrl, l)
        stop(res, thr) == [next |-> "return", routerId |-> routerId,
                           baseUrl |-> mirrorNodeBaseUrl, result |-> res, threw |-> thr]
    IN  IF ~lg.ok THEN stop(CatchResult(lg.err), TRUE)
        ELSE IF routerId = ""
        THEN stop(StringResult("Unsupported Hedera network for SaucerSwap router."), FALSE)
        ELSE IF mirrorNodeBaseUrl = ""
        THEN stop(CatchResult(Err("Unsupported Hedera network for Mirror Node lookup.")), TRUE)
        ELSE [next |-> "fetch", routerId |-> routerId, baseUrl |-> mirrorNodeBaseUrl,
              result |-> NoResult, threw |-> FALSE]

\* NotFungible with the comparison inverted.
NotFungibleInverted(info) == Truthy(info.type) /\ info.type = Str("FUNGIBLE_COMMON")

\* Line 63: the token-type gate.
NotFungible(info) == Truthy(info.type) /\ info.type # Str("FUNGIBLE_COMMON")

\* AccountResolver.resolveAccount: the given account, else the default one.
resolveAccount(given, dflt) ==
    IF given # "" THEN Return(given)
    ELSE IF dflt # "" THEN Return(dflt)
    ELSE Throw(Err("Either context.accountId or operator account must be provided"), "")

\* Deadline without the conversion from milliseconds to seconds.
DeadlineMillis(now) == now + DEFAULT_DEADLINE_SECONDS

\* Line 81.
Deadline(now) == (now \div 1000) + DEFAULT_DEADLINE_SECONDS

\* Lines 90-100: the contract-execution transaction.
SwapTx(routerId, hbarAmount, path, recipientAccountEvmAddress, deadline) ==
    [type |-> "ContractExecuteTransaction",
     contractId |-> routerId,
     gas |-> DEFAULT_SWAP_GAS,
     payableAmount |-> hbarAmount,
     function |-> "swapExactETHForTokens",
     abi |-> << "uint256", "address[]", "address", "uint256" >>,
     parameters |-> << 0, path, recipientAccountEvmAddress, deadline >>]

\* An outbound operation: what is asked, of whom, about what.
Call(op, target, subject) == [op |-> op, target |-> target, subject |-> subject]

\* AfterFailedRequest with one retry of the failed request.
AfterFailedRequestRetry(cs, call) == Append(cs, call)

\* fetchFromMirrorNode / fetchTokenInfoFromMirrorNode issue their request
\* once: a failed request is thrown, never issued again.
AfterFailedRequest(cs, call) == cs

-----------------------------------------------------------------------------
(* Initial state: the host calls one exported function *)

Entries == { "execute", "ensureTokenAssociation", "resolveSwapPath" }

\* LedgerId values of a client; "NONE" is a client without a ledger id.
Ledgers == { "NONE", "TESTNET", "MAINNET", "PREVIEWNET" }

Modes == { "AUTONOMOUS", "RETURN_BYTES", "UNSET" }

TokenIds == { "0.0.5005", "token" }

Idle(v) == [st |-> "idle", val |-> v, err |-> NoErr]

Init ==
    /\ entry \in Entries
    /\ ledger \in Ledgers
    /\ mode \in Modes
    /\ params \in [hbarAmount : 1..MaxHbar, tokenId : TokenIds,
                   recipientAccountId : { "", "0.0.1001" }]
    /\ ctxAccount \in { "", "0.0.2002" }
    /\ pc = "start"
    /\ calls = << >>
    /\ handed = << >>
    /\ tokenResp = NoTokenResponse
    /\ tokenInfo = [st |-> "idle", val |-> NoTokenInfo, err |-> NoErr]
    /\ recipient = ""
    /\ hasTok = Idle(FALSE)
    /\ maxAuto = Idle(0)
    /\ promiseAll = [st |-> "idle", err |-> NoErr]
    /\ assocResult = NoHandlerResult
    /\ guard = [st |-> "idle", err |-> NoErr]
    /\ nowRead = -1
    /\ swapResult = NoHandlerResult
    /\ pathOut = [st |-> "idle", val |-> << >>, err |-> NoErr]
    /\ failed = FALSE
    /\ result = NoResult

Settled(c) == [st |-> IF c.ok THEN "fulfilled" ELSE "rejected", val |-> c.val, err |-> c.err]

\* Where the task goes once the guard has completed.
AfterGuardPc == IF entry = "execute" THEN "afterGuard" ELSE "done"

TokenInfoCall(baseUrl) == Call("GET /tokens/{tokenId}", baseUrl, params.tokenId)
HasTokenCall(baseUrl, accountId) ==
    Call("GET /accounts/{accountId}/tokens", baseUrl, accountId)
MaxAutoCall(baseUrl, accountId) == Call("GET /accounts/{accountId}", baseUrl, accountId)
AssociateCall(accountId) == Call("handleTransaction(associateTx)", "handler", accountId)
EvmAddressCall(accountId) == Call("populateAccountEvmAddress", "client", accountId)
SwapCall(accountId) == Call("handleTransaction(tx)", "handler", accountId)

-----------------------------------------------------------------------------
(* execute, part_001 lines 45-61: up to the token-info request *)

ExecuteStart ==
    /\ entry = "execute"
    /\ pc = "start"
    /\ LET p == ExecutePrelude(ledger)
       IN  IF p.next = "fetch"
           THEN /\ calls' = Append(calls, TokenInfoCall(p.baseUrl))
                /\ tokenInfo' = [tokenInfo EXCEPT !.st = "pending"]
                /\ pc' = "awaitTokenInfo"
                /\ UNCHANGED << failed, result >>
           ELSE /\ result' = p.result
                /\ failed' = p.threw
                /\ pc' = "done"
                /\ UNCHANGED << calls, tokenInfo >>
    /\ UNCHANGED << tokenResp, entry, ledger, mode, params, ctxAccount, handed, recipient,
                    hasTok, maxAuto, promiseAll, assocResult, guard, nowRead,
                    swapResult, pathOut >>

(* execute, lines 58-77, with ensureTokenAssociation lines 103-112: the       *)
(* token info arrives; type gate, recipient, and the two lookups are issued. *)
ExecuteAfterTokenInfo ==
    /\ pc = "awaitTokenInfo"
    /\ \E r \in TokenResponses :
        LET ti   == fetchTokenInfoFromMirrorNode(r)
            acct == resolveAccount(params.recipientAccountId, ctxAccount)
            pre  == EnsurePrelude(ledger)
            base == MapGet(LedgerIdToBaseUrl, ledger)
        IN  /\ tokenResp' = r
            /\ tokenInfo' = Settled(ti)
            /\ IF ~ti.ok
               THEN /\ result' = CatchResult(ti.err)
                    /\ failed' = TRUE
                    /\ calls' = AfterFailedRequest(calls, TokenInfoCall(base))
                    /\ pc' = "done"
                    /\ UNCHANGED << recipient, hasTok, maxAuto, promiseAll, guard >>
               ELSE IF NotFungible(ti.val)
               THEN /\ result' = StringResult("This token is not a Fungible Token")
                    /\ pc' = "done"
                    /\ UNCHANGED << failed, calls, recipient, hasTok, maxAuto,
                                    promiseAll, guard >>
               ELSE IF ~acct.ok
               THEN /\ result' = CatchResult(acct.err)
                    /\ failed' = TRUE
                    /\ pc' = "done"
                    /\ UNCHANGED << calls, recipient, hasTok, maxAuto, promiseAll, guard >>
               ELSE IF ~pre.ok
               THEN /\ recipient' = acct.val
                    /\ guard' = [st |-> "threw", err |-> pre.err]
                    /\ failed' = TRUE
                    /\ pc' = "afterGuard"
                    /\ UNCHANGED << result, calls, hasTok, maxAuto, promiseAll >>
               ELSE /\ recipient' = acct.val
                    /\ calls' = calls \o << HasTokenCall(pre.val, acct.val),
                                            MaxAutoCall(pre.val, acct.val) >>
                    /\ hasTok' = [hasTok EXCEPT !.st = "pending"]
                    /\ maxAuto' = [maxAuto EXCEPT !.st = "pending"]
                    /\ promiseAll' = [promiseAll EXCEPT !.st = "pending"]
                    /\ guard' = [guard EXCEPT !.st = "running"]
                    /\ pc' = "awaitLookups"
                    /\ UNCHANGED << result, failed >>
    /\ UNCHANGED << entry, ledger, mode, params, ctxAccount, handed, assocResult,
                    nowRead, swapResult, pathOut >>

-----------------------------------------------------------------------------
(* ensureTokenAssociation called on its own, utils.ts lines 97-112 *)

EnsureTokenAssociationCall ==
    /\ entry = "ensureTokenAssociation"
    /\ pc = "start"
    /\ \E accountId \in { "0.0.1001", "0.0.2002" } :
        LET pre == EnsurePrelude(ledger)
        IN  /\ recipient' = accountId
            /\ IF ~pre.ok
               THEN /\ guard' = [st |-> "threw", err |-> pre.err]
                    /\ failed' = TRUE
                    /\ pc' = "done"
                    /\ UNCHANGED << calls, hasTok, maxAuto, promiseAll >>
               ELSE /\ calls' = calls \o << HasTokenCall(pre.val, accountId),
                                            MaxAutoCall(pre.val, accountId) >>
                    /\ hasTok' = [hasTok EXCEPT !.st = "pending"]
                    /\ maxAuto' = [maxAuto EXCEPT !.st = "pending"]
                    /\ promiseAll' = [promiseAll EXCEPT !.st = "pending"]
                    /\ guard' = [guard EXCEPT !.st = "running"]
                    /\ pc' = "awaitLookups"
                    /\ UNCHANGED failed
    /\ UNCHANGED << tokenResp, entry, ledger, mode, params, ctxAccount, handed, tokenInfo,
                    assocResult, nowRead, swapResult, pathOut, result >>

(* mirrorNodeAccountHasToken completes, utils.ts lines 67-84 *)
HasTokenSettles ==
    /\ hasTok.st = "pending"
    /\ \E r \in AccountTokensResponses(params.tokenId) :
        LET c == mirrorNodeAccountHasToken(r, params.tokenId)
        IN  /\ hasTok' = Settled(c)
            /\ promiseAll' = PromiseAllStep(promiseAll, c, maxAuto.st)
            /\ failed' = (failed \/ ~c.ok)
            /\ calls' = IF c.ok THEN calls
                        ELSE AfterFailedRequest(calls,
                                 HasTokenCall(MapGet(LedgerIdToBaseUrl, ledger), recipient))
    /\ UNCHANGED << tokenResp, entry, ledger, mode, params, ctxAccount, pc, handed, tokenInfo,
                    recipient, maxAuto, assocResult, guard, nowRead, swapResult,
                    pathOut, result >>

(* mirrorNodeAccountMaxAutoAssociations completes, utils.ts lines 86-95 *)
MaxAutoSettles ==
    /\ maxAuto.st = "pending"
    /\ \E r \in AccountResponses :
        LET c == mirrorNodeAccountMaxAutoAssociations(r)
        IN  /\ maxAuto' = Settled(c)
            /\ promiseAll' = PromiseAllStep(promiseAll, c, hasTok.st)
            /\ failed' = (failed \/ ~c.ok)
            /\ calls' = IF c.ok THEN calls
                        ELSE AfterFailedRequest(calls,
                                 MaxAutoCall(MapGet(LedgerIdToBaseUrl, ledger), recipient))
    /\ UNCHANGED << tokenResp, entry, ledger, mode, params, ctxAccount, pc, handed, tokenInfo,
                    recipient, hasTok, assocResult, guard, nowRead, swapResult,
                    pathOut, result >>

(* ensureTokenAssociation resumes after `await Promise.all`, lines 109-139 *)
EnsureTokenAssociationDecide ==
    /\ pc = "awaitLookups"
    /\ promiseAll.st \in { "fulfilled", "rejected" }
    /\ LET decision == AssociationDecision(hasTok.val, maxAuto.val, mode)
       IN  IF promiseAll.st = "rejected"
           THEN /\ guard' = [st |-> "threw", err |-> promiseAll.err]
                /\ pc' = AfterGuardPc
                /\ UNCHANGED << failed, calls, handed >>
           ELSE IF decision = "return"
           THEN /\ guard' = [st |-> "returned", err |-> NoErr]
                /\ pc' = AfterGuardPc
                /\ UNCHANGED << failed, calls, handed >>
           ELSE IF decision = "throw"
           THEN /\ guard' = [st |-> "threw", err |-> Err(AssociationRequiredMessage)]
                /\ failed' = TRUE
                /\ pc' = AfterGuardPc
                /\ UNCHANGED << calls, handed >>
           ELSE /\ handed' = Append(handed, AssociateTx(recipient, params.tokenId))
                /\ calls' = Append(calls, AssociateCall(recipient))
                /\ pc' = "awaitAssociation"
                /\ UNCHANGED << failed, guard >>
    /\ UNCHANGED << tokenResp, entry, ledger, mode, params, ctxAccount, tokenInfo, recipient,
                    hasTok, maxAuto, promiseAll, assocResult, nowRead, swapResult,
                    pathOut, result >>

(* ensureTokenAssociation resumes after handleTransaction, lines 131-150 *)
EnsureTokenAssociationAfterHandler ==
    /\ pc = "awaitAssociation"
    /\ \E h \in HandlerAnswers :
        LET c == AssociationOutcome(h)
        IN  /\ assocResult' = h
            /\ guard' = [st |-> IF c.ok THEN "returned" ELSE "threw", err |-> c.err]
            /\ failed' = (failed \/ ~c.ok)
            /\ pc' = AfterGuardPc
    /\ UNCHANGED << tokenResp, entry, ledger, mode, params, ctxAccount, calls, handed, tokenInfo,
                    recipient, hasTok, maxAuto, promiseAll, nowRead, swapResult,
                    pathOut, result >>

-----------------------------------------------------------------------------
(* execute resumes after `await ensureTokenAssociation`, lines 72-88 *)

ExecuteAfterGuard ==
    /\ pc = "afterGuard"
    /\ LET path == resolveSwapPath(ledger, params.tokenId)
       IN  IF guard.st = "threw"
           THEN /\ result' = CatchResult(guard.err)
                /\ pc' = "done"
                /\ UNCHANGED << failed, calls, nowRead >>
           ELSE IF ~path.ok
           THEN /\ result' = CatchResult(path.err)
                /\ failed' = TRUE
                /\ pc' = "done"
                /\ UNCHANGED << calls, nowRead >>
           ELSE /\ \E now \in NowValues : nowRead' = now
                /\ calls' = Append(calls, EvmAddressCall(recipient))
                /\ pc' = "awaitEvmAddress"
                /\ UNCHANGED << failed, result >>
    /\ UNCHANGED << tokenResp, entry, ledger, mode, params, ctxAccount, handed, tokenInfo,
                    recipient, hasTok, maxAuto, promiseAll, assocResult, guard,
                    swapResult, pathOut >>

(* execute resumes after populateAccountEvmAddress, lines 84-102 *)
ExecuteAfterEvmAddress ==
    /\ pc = "awaitEvmAddress"
    /\ \E a \in EvmAnswers :
        LET path == resolveSwapPath(ledger, params.tokenId).val
            routerId == MapGet(LedgerIdToRouterContractID, ledger)
            deadline == Deadline(nowRead)
            tx == SwapTx(routerId, params.hbarAmount, path, a.address, deadline)
        IN  IF ~a.ok
            THEN /\ result' = CatchResult(a.err)
                 /\ failed' = TRUE
                 /\ pc' = "done"
                 /\ UNCHANGED << calls, handed >>
            ELSE /\ handed' = Append(handed, tx)
                 /\ calls' = Append(calls, SwapCall(recipient))
                 /\ pc' = "awaitSwap"
                 /\ UNCHANGED << failed, result >>
    /\ UNCHANGED << tokenResp, entry, ledger, mode, params, ctxAccount, tokenInfo, recipient,
                    hasTok, maxAuto, promiseAll, assocResult, guard, nowRead,
                    swapResult, pathOut >>

(* execute resumes after handleTransaction(tx), lines 102-115 *)
ExecuteAfterSwap ==
    /\ pc = "awaitSwap"
    /\ \E h \in HandlerAnswers :
        /\ swapResult' = h
        /\ result' = IF h.threw THEN CatchResult(h.err) ELSE HandlerResult(h)
        /\ failed' = (failed \/ h.threw)
        /\ pc' = "done"
    /\ UNCHANGED << tokenResp, entry, ledger, mode, params, ctxAccount, calls, handed, tokenInfo,
                    recipient, hasTok, maxAuto, promiseAll, assocResult, guard,
                    nowRead, pathOut >>

-----------------------------------------------------------------------------
(* resolveSwapPath called on its own, utils.ts lines 153-163 *)

ResolveSwapPathCall ==
    /\ entry = "resolveSwapPath"
    /\ pc = "start"
    /\ LET c == resolveSwapPath(ledger, params.tokenId)
       IN  /\ pathOut' = Settled(c)
           /\ failed' = ~c.ok
    /\ pc' = "done"
    /\ UNCHANGED << tokenResp, entry, ledger, mode, params, ctxAccount, calls, handed, tokenInfo,
                    recipient, hasTok, maxAuto, promiseAll, assocResult, guard,
                    nowRead, swapResult, result >>

-----------------------------------------------------------------------------

Next ==
    \/ ExecuteStart
    \/ ExecuteAfterTokenInfo
    \/ EnsureTokenAssociationCall
    \/ HasTokenSettles
    \/ MaxAutoSettles
    \/ EnsureTokenAssociationDecide
    \/ EnsureTokenAssociationAfterHandler
    \/ ExecuteAfterGuard
    \/ ExecuteAfterEvmAddress
    \/ ExecuteAfterSwap
    \/ ResolveSwapPathCall

Spec == Init /\ [][Next]_vars

-----------------------------------------------------------------------------
(* Vocabulary of the properties *)

IsExecute == entry = "execute"

Done == pc = "done"

OpCount(op) == Cardinality({ i \in DOMAIN calls : calls[i].op = op })

OutboundOps == { calls[i].op : i \in DOMAIN calls }

AssocHanded ==
    \E i \in DOMAIN handed : handed[i].type = "TokenAssociateTransaction"

SwapHanded ==
    \E i \in DOMAIN handed : handed[i].type = "ContractExecuteTransaction"

\* execute returned { raw: { error: msg }, humanMessage: msg }.
ReturnedError(msg) ==
    /\ result.kind = "structured"
    /\ result.raw.error = msg
    /\ result.humanMessage = msg

\* The guard has taken its decision on two fulfilled lookups.
LookupsJoined == promiseAll.st = "fulfilled" /\ pc # "awaitLookups"

AssociationRequired == ~hasTok.val /\ maxAuto.val # -1

SupportedLedger == ledger \in { "TESTNET", "MAINNET" }

UnsupportedLedger == ledger = "PREVIEWNET"

-----------------------------------------------------------------------------
(* C1: every exception raised during execute is caught at the tool boundary: *)
(* a finished invocation in which a step raised returns the structured       *)
(* result { raw: { error: message }, humanMessage: message } with the two    *)
(* messages equal, and execute never ends without a returned value.          *)
Thm_C1 ==
    (IsExecute /\ Done) =>
        /\ result.kind \in { "string", "structured", "handler" }
        /\ failed => /\ result.kind = "structured"
                     /\ result.raw.error = result.humanMessage

\* The transaction handler raised a value that is no Error; execute returned
\* the structured result with the fallback message.
Wit_C1 ==
    /\ IsExecute /\ Done /\ failed
    /\ swapResult.threw /\ ~swapResult.err.isError
    /\ ReturnedError("Unexpected error during SaucerSwap swap.")

-----------------------------------------------------------------------------
\* A declared type is present in the token-info body.
TypePresent == tokenResp.body.type.tag \notin { "undefined", "null" }

TypeNonEmpty == tokenResp.body.type.tag = "str" /\ tokenResp.body.type.s # ""

TypeIsMarker == tokenResp.body.type = Str("FUNGIBLE_COMMON")

\* What C2 promises of an invocation whose token is refused.
RefusedAsNotFungible ==
    /\ Done
    /\ result = StringResult("This token is not a Fungible Token")
    /\ Len(calls) = 1
    /\ handed = << >>

-----------------------------------------------------------------------------
(* C3: when association is required and the mode is RETURN_BYTES, the guard  *)
(* fails with the association-required error, no transaction (association   *)
(* or swap) is handed to the handler, and execute returns a structured       *)
(* error result.                                                             *)
Thm_C3 ==
    (promiseAll.st = "fulfilled" /\ AssociationRequired /\ mode = "RETURN_BYTES") =>
        /\ handed = << >>
        /\ "handleTransaction(associateTx)" \notin OutboundOps
        /\ "handleTransaction(tx)" \notin OutboundOps
        /\ pc # "awaitLookups" =>
              /\ guard.st = "threw"
              /\ guard.err = Err(AssociationRequiredMessage)
        /\ (IsExecute /\ Done) => ReturnedError(AssociationRequiredMessage)

Wit_C3 ==
    /\ IsExecute /\ Done
    /\ promiseAll.st = "fulfilled" /\ AssociationRequired /\ mode = "RETURN_BYTES"
    /\ maxAuto.val = 5
    /\ result.kind = "structured"

-----------------------------------------------------------------------------
(* C4: the guard returns normally and submits no association whenever        *)
(* isAssociated is true or the ceiling is -1; an association transaction is  *)
(* handed to the handler only when isAssociated is false, the ceiling is not *)
(* -1 and the mode is not RETURN_BYTES.                                      *)
Thm_C4 ==
    /\ (LookupsJoined /\ (hasTok.val \/ maxAuto.val = -1)) =>
          /\ guard.st = "returned"
          /\ ~AssocHanded
          /\ "handleTransaction(associateTx)" \notin OutboundOps
    /\ AssocHanded =>
          /\ promiseAll.st = "fulfilled"
          /\ ~hasTok.val
          /\ maxAuto.val # -1
          /\ mode # "RETURN_BYTES"

\* Not associated, unlimited auto-association: the guard returned.
Wit_C4 ==
    /\ LookupsJoined
    /\ ~hasTok.val /\ maxAuto.val = -1
    /\ guard.st = "returned"
    /\ Done

-----------------------------------------------------------------------------
(* C5: when the handler's executed result for the association carries a      *)
(* status other than SUCCESS, the guard fails with "Token association        *)
(* failed: <status>", execute returns that message as a structured error and *)
(* no swap transaction is built or handed over; on every path a swap is      *)
(* handed to the handler only after the guard has returned normally.         *)
Thm_C5 ==
    /\ (assocResult.shape = "raw" /\ assocResult.status # "SUCCESS") =>
          /\ guard.st = "threw"
          /\ guard.err = Err("Token association failed: " \o assocResult.status)
          /\ ~SwapHanded
          /\ "handleTransaction(tx)" \notin OutboundOps
          /\ (IsExecute /\ Done) =>
                ReturnedError("Token association failed: " \o assocResult.status)
    /\ SwapHanded => guard.st = "returned"

Wit_C5 ==
    /\ IsExecute /\ Done
    /\ mode = "AUTONOMOUS" /\ ~hasTok.val /\ maxAuto.val = 0
    /\ assocResult = Executed("INSUFFICIENT_PAYER_BALANCE")
    /\ result.kind = "structured"

-----------------------------------------------------------------------------
\* The swap path of the connected network, from the tables of constants.ts.
ExpectedPath ==
    << IF ledger = "TESTNET" THEN "0x0.0.15058" ELSE "0x0.0.1456986",
       "0x" \o params.tokenId >>

ExpectedSwapTx ==
    [type |-> "ContractExecuteTransaction",
     contractId |-> IF ledger = "TESTNET" THEN "0.0.19264" ELSE "0.0.3045981",
     gas |-> 400000,
     payableAmount |-> params.hbarAmount,
     function |-> "swapExactETHForTokens",
     abi |-> << "uint256", "address[]", "address", "uint256" >>,
     parameters |-> << 0, ExpectedPath, "0xabc1", (nowRead \div 1000) + 300 >>]

-----------------------------------------------------------------------------
UnsupportedMessages ==
    { "Unsupported Hedera network for SaucerSwap router.",
      "Unsupported Hedera network for Mirror Node lookup.",
      "Unsupported Hedera network for WHBAR mapping." }

NoNetworkCall == calls = << >> /\ handed = << >>

\* The two resolvers of utils.ts on an unsupported network.
UtilsResolversFail ==
    /\ entry = "ensureTokenAssociation" =>
          /\ guard.st = "threw"
          /\ guard.err = Err("Unsupported Hedera network for Mirror Node lookup.")
    /\ entry = "resolveSwapPath" =>
          /\ pathOut.st = "rejected"
          /\ pathOut.err = Err("Unsupported Hedera network for WHBAR mapping.")

(* C7 as stated: on an unsupported network every resolver, the Swap Tool's   *)
(* router lookup included, fails with the unsupported-network error, and no  *)
(* network call is performed.                                                *)
Orig_C7 ==
    UnsupportedLedger =>
        /\ NoNetworkCall
        /\ Done =>
              /\ UtilsResolversFail
              /\ IsExecute => /\ failed
                              /\ result.kind = "structured"
                              /\ result.humanMessage \in UnsupportedMessages

(* C7 amended: on an unsupported network resolveSwapPath and the guard's     *)
(* base-URL lookup fail with their unsupported-network errors, while the     *)
(* Swap Tool's router lookup raises nothing and makes execute return the     *)
(* bare string "Unsupported Hedera network for SaucerSwap router."; in every *)
(* case no network call is performed.                                        *)
Thm_C7 ==
    UnsupportedLedger =>
        /\ NoNetworkCall
        /\ Done =>
              /\ UtilsResolversFail
              /\ IsExecute =>
                    /\ ~failed
                    /\ result = StringResult("Unsupported Hedera network for SaucerSwap router.")

Wit_C7 ==
    /\ IsExecute /\ Done /\ UnsupportedLedger
    /\ result.kind = "string"
    /\ calls = << >>

-----------------------------------------------------------------------------
(* C8: nothing is retried.  Each outbound operation is issued at most once   *)
(* in an invocation; once a failure has been observed no outbound operation  *)
(* is issued and no transaction is handed over; and the invocation of the    *)
(* Swap Tool then ends with an error outcome.                                *)
Thm_C8 ==
    /\ [](\A op \in OutboundOps : OpCount(op) = 1)
    /\ [](Len(handed) <= 2)
    /\ [][failed => (calls' = calls /\ handed' = handed)]_vars
    /\ []((IsExecute /\ Done /\ failed) => result.kind = "structured")

\* The token lookup failed while the ceiling lookup succeeded.
Wit_C8 ==
    /\ IsExecute /\ Done /\ failed
    /\ hasTok.st = "rejected" /\ maxAuto.st = "fulfilled"
    /\ Len(calls) = 3
    /\ result.kind = "structured"

-----------------------------------------------------------------------------
\* The response carries a numeric decimals value: a number or a numeric string.
NumericDecimals(v) ==
    \/ v.tag = "num"
    \/ v.tag = "str" /\ v.s \in DOMAIN DecimalLiterals

(* C9: fetchTokenInfoFromMirrorNode fails whenever the response is not       *)
(* successful or its body lacks a numeric decimals field, and returns only   *)
(* with a numeric decimals value.                                            *)
Orig_C9 ==
    tokenInfo.st \in { "fulfilled", "rejected" } =>
        /\ (~ResponseOk(tokenResp.resp) \/ ~NumericDecimals(tokenResp.body.decimals))
              => tokenInfo.st = "rejected"
        /\ tokenInfo.st = "fulfilled" => tokenInfo.val.decimals.tag = "num"

-----------------------------------------------------------------------------
LookupsIssued ==
    /\ OpCount("GET /accounts/{accountId}/tokens") = 1
    /\ OpCount("GET /accounts/{accountId}") = 1

\* The guard has acted on the lookup results: returned, refused, or submitted.
GuardDecided ==
    \/ guard.st = "returned"
    \/ guard.st = "threw" /\ guard.err = Err(AssociationRequiredMessage)
    \/ AssocHanded

LookupErrors ==
    (IF hasTok.st = "rejected" THEN { hasTok.err } ELSE { }) \cup
    (IF maxAuto.st = "rejected" THEN { maxAuto.err } ELSE { })

Orig_C10_Mirror ==
    (guard.st = "threw" /\ hasTok.st = "rejected" /\ maxAuto.st = "rejected") =>
        guard.err = maxAuto.err

====
